---- MODULE Spec2Model ----
(***************************************************************************)
(* State-machine model of the Mandelbulb ray-marching engine:              *)
(*   Jtoolbox.py        rotx, rotz, mand2 (distance estimator)             *)
(*   mandelclass_v04.py Mandelbulb.__init__, visualize, render             *)
(*                                                                         *)
(* Floating point is modelled by a fixed-point number system with the      *)
(* IEEE special values: a float is a record [k, v] with k = "fin" (v is    *)
(* the value in units of 1/Q), k = "inf" (v is the sign) or k = "nan".     *)
(* A finite result whose magnitude exceeds MaxFloat overflows to an        *)
(* infinity, as a float64 result above 1.8e308 does.  The sign of zero is  *)
(* not modelled.  The numpy library functions (sqrt, log, sin, cos,        *)
(* arccos, arctan) are computed by integer approximations.                 *)
(***************************************************************************)
EXTENDS Integers, Sequences, FiniteSets, TLC

\* ------------------------------------------------------------ bounds
\* Resolution of the fixed-point numbers: one unit is 1/Q.
Q == 100
\* Largest finite magnitude, in units; anything larger overflows to Inf.
MaxFloat == 40000
\* Largest resolution, march-step count, fractal order and power drawn.
MaxRes == 2
MaxMarch == 2
MaxOrder == 2
MaxPower == 2
\* Number of attribute assignments per behaviour.
MaxSets == 1
\* Largest batch and iteration count of the stand-alone mand2 runs.
MaxBatch == 2
MaxIter == 2

\* ------------------------------------------------------------ floats
Fin(n) == [k |-> "fin", v |-> n]
NaN == [k |-> "nan", v |-> 0]
Inf(s) == [k |-> "inf", v |-> s]
Zero == Fin(0)
One == Fin(Q)

IsFin(a) == a.k = "fin"
IsNaN(a) == a.k = "nan"
IsInf(a) == a.k = "inf"

Sgn(n) == IF n > 0 THEN 1 ELSE IF n < 0 THEN -1 ELSE 0
Abs(n) == IF n < 0 THEN -n ELSE n
\* Division rounding toward zero (symmetric in the sign, like IEEE rounding).
TruncDiv(a, b) == Sgn(a) * Sgn(b) * (Abs(a) \div Abs(b))

\* A finite result, or the infinity it overflows to.
Norm1(n) == IF Abs(n) > MaxFloat THEN Inf(Sgn(n)) ELSE Fin(n)

FSign(a) == IF IsFin(a) THEN Sgn(a.v) ELSE a.v

FNeg(a) ==
    CASE IsNaN(a) -> NaN
      [] IsInf(a) -> Inf(-a.v)
      [] OTHER -> Fin(-a.v)

FAbs(a) ==
    CASE IsNaN(a) -> NaN
      [] IsInf(a) -> Inf(1)
      [] OTHER -> Fin(Abs(a.v))

FAdd(a, b) ==
    CASE IsNaN(a) \/ IsNaN(b) -> NaN
      [] IsInf(a) /\ IsInf(b) -> IF a.v = b.v THEN a ELSE NaN
      [] IsInf(a) -> a
      [] IsInf(b) -> b
      [] OTHER -> Norm1(a.v + b.v)

FSub(a, b) == FAdd(a, FNeg(b))

\* inf * 0 and nan * anything are nan: a product with a zero mask does not
\* erase an indeterminate value.
FMul(a, b) ==
    CASE IsNaN(a) \/ IsNaN(b) -> NaN
      [] IsInf(a) \/ IsInf(b) ->
            IF FSign(a) * FSign(b) = 0 THEN NaN ELSE Inf(FSign(a) * FSign(b))
      [] OTHER -> Norm1(TruncDiv(a.v * b.v, Q))

\* numpy division: x/0 is +-inf, 0/0 is nan, no exception is raised.
FDiv(a, b) ==
    CASE IsNaN(a) \/ IsNaN(b) -> NaN
      [] IsInf(a) /\ IsInf(b) -> NaN
      [] IsInf(a) -> Inf(a.v * (IF FSign(b) < 0 THEN -1 ELSE 1))
      [] IsInf(b) -> Zero
      [] b.v = 0 -> IF a.v = 0 THEN NaN ELSE Inf(Sgn(a.v))
      [] OTHER -> Norm1(TruncDiv(a.v * Q, b.v))

\* Comparisons: every comparison with nan is false.
FLt(a, b) ==
    CASE IsNaN(a) \/ IsNaN(b) -> FALSE
      [] IsInf(a) /\ IsInf(b) -> a.v < b.v
      [] IsInf(a) -> a.v < 0
      [] IsInf(b) -> b.v > 0
      [] OTHER -> a.v < b.v

FGe(a, b) ==
    CASE IsNaN(a) \/ IsNaN(b) -> FALSE
      [] IsInf(a) /\ IsInf(b) -> a.v >= b.v
      [] IsInf(a) -> a.v > 0
      [] IsInf(b) -> b.v < 0
      [] OTHER -> a.v >= b.v

\* A boolean array used as a factor: True is 1.0, False is 0.0.
Mask(b) == IF b THEN One ELSE Zero

\* Integer square root (floor) of n < 2^30, digit by digit in base 32.
SqrtDigit(n, base, scale) ==
    CHOOSE c \in 0..31 :
        /\ (base + c * scale) * (base + c * scale) <= n
        /\ (c = 31 \/ (base + (c + 1) * scale) * (base + (c + 1) * scale) > n)

ISqrt(n) ==
    LET d1 == SqrtDigit(n, 0, 1024) * 1024
        d2 == d1 + SqrtDigit(n, d1, 32) * 32
    IN  d2 + SqrtDigit(n, d2, 1)

FSqrt(a) ==
    CASE IsNaN(a) -> NaN
      [] IsInf(a) -> IF a.v > 0 THEN a ELSE NaN
      [] a.v < 0 -> NaN
      [] OTHER -> Fin(ISqrt(a.v * Q))

\* x ** n for an integer n >= 0, by repeated multiplication; x ** 0 is 1
\* for every x, nan included.
RECURSIVE FPow(_, _)
FPow(a, n) == IF n <= 0 THEN One ELSE FMul(a, FPow(a, n - 1))

\* ------------------------------------------------------------ library
HalfPi == (157 * Q) \div 100
Pi == 2 * HalfPi
TwoPi == 2 * Pi
Ln2 == (69 * Q) \div 100

\* sin on [0, pi] by Bhaskara's formula 16y(pi-y) / (5pi^2 - 4y(pi-y)),
\* exact at 0, pi/2 and pi.
SinHalf(y) == ((16 * y * (Pi - y)) * Q) \div (5 * Pi * Pi - 4 * y * (Pi - y))

SinUnits(x) ==
    LET m == x % TwoPi
    IN  IF m <= Pi THEN SinHalf(m) ELSE -SinHalf(m - Pi)

FSin(a) == IF IsFin(a) THEN Fin(SinUnits(a.v)) ELSE NaN

FCos(a) == IF IsFin(a) THEN Fin(SinUnits(a.v + HalfPi)) ELSE NaN

\* arctan(t) for |t| <= 1 by t / (1 + 0.28 t^2), in units.
ATanSmall(t) == TruncDiv(t * Q * Q, Q * Q + (28 * t * t) \div 100)

ATanUnits(t) ==
    IF Abs(t) <= Q THEN ATanSmall(t)
    ELSE Sgn(t) * HalfPi - ATanSmall(TruncDiv(Q * Q, t))

FArctan(a) ==
    CASE IsNaN(a) -> NaN
      [] IsInf(a) -> Fin(a.v * HalfPi)
      [] OTHER -> Fin(ATanUnits(a.v))

\* arccos(c) = pi/2 - arctan(c / sqrt(1 - c^2)); nan outside [-1, 1].
FArccos(a) ==
    CASE ~IsFin(a) -> NaN
      [] Abs(a.v) > Q -> NaN
      [] Abs(a.v) = Q -> IF a.v > 0 THEN Zero ELSE Fin(Pi)
      [] OTHER ->
            LET s == ISqrt(Q * Q - a.v * a.v)
            IN  IF s = 0 THEN (IF a.v > 0 THEN Zero ELSE Fin(Pi))
                ELSE Fin(HalfPi - ATanUnits(TruncDiv(a.v * Q, s)))

\* Natural logarithm of a positive number of units: halve or double e times
\* into [1, 2), then 2(y + y^3/3) with y = (m-1)/(m+1).
LnMantissa(m) ==
    LET y == ((m - Q) * Q) \div (m + Q)
    IN  2 * (y + (y * y * y) \div (3 * Q * Q))

LnUnits(v) ==
    IF v >= Q
    THEN LET e == CHOOSE k \in 0..30 : v \div (2 ^ k) >= Q /\ v \div (2 ^ k) < 2 * Q
         IN  e * Ln2 + LnMantissa(v \div (2 ^ e))
    ELSE LET e == CHOOSE k \in 1..30 : v * (2 ^ k) >= Q /\ v * (2 ^ k) < 2 * Q
         IN  LnMantissa(v * (2 ^ e)) - e * Ln2

FLog(a) ==
    CASE IsNaN(a) -> NaN
      [] IsInf(a) -> IF a.v > 0 THEN a ELSE NaN
      [] a.v < 0 -> NaN
      [] a.v = 0 -> Inf(-1)
      [] OTHER -> Fin(LnUnits(a.v))

\* ------------------------------------------------------------ vectors
\* A vector is a triple of floats, a matrix a triple of rows, a batch a
\* sequence of vectors (one row of an N x 3 array per ray or point).
Vec(x, y, z) == <<Fin(x), Fin(y), Fin(z)>>

VAdd(u, w) == <<FAdd(u[1], w[1]), FAdd(u[2], w[2]), FAdd(u[3], w[3])>>
VSub(u, w) == <<FSub(u[1], w[1]), FSub(u[2], w[2]), FSub(u[3], w[3])>>
VScale(u, a) == <<FMul(u[1], a), FMul(u[2], a), FMul(u[3], a)>>
VFinite(u) == IsFin(u[1]) /\ IsFin(u[2]) /\ IsFin(u[3])

\* LA.norm(v.T, axis=0): the square root of the sum of the squares.
LAnorm(u) == FSqrt(FAdd(FAdd(FMul(u[1], u[1]), FMul(u[2], u[2])), FMul(u[3], u[3])))

\* np.matmul(v, M) for a row vector v: component j is sum_i v[i] * M[i][j].
matmul(u, M) ==
    [j \in 1..3 |->
        FAdd(FAdd(FMul(u[1], M[1][j]), FMul(u[2], M[2][j])), FMul(u[3], M[3][j]))]

\* M1 . M2 for 3 x 3 matrices.
MatMat(M1, M2) == [i \in 1..3 |-> matmul(M1[i], M2)]

rotx(angle) ==
    LET cos == FCos(angle)
        sin == FSin(angle)
    IN  << <<One, Zero, Zero>>, <<Zero, cos, sin>>, <<Zero, FNeg(sin), cos>> >>

rotz(angle) ==
    LET cos == FCos(angle)
        sin == FSin(angle)
    IN  << <<cos, sin, Zero>>, <<FNeg(sin), cos, Zero>>, <<Zero, Zero, One>> >>

\* ------------------------------------------------------------ mand2
bailout == (3 * Q) \div 2

\* mand2's locals for one point before the first iteration: z = pos,
\* dr = 1, r = 0.
MandStart(p) == [z |-> p, dr |-> One, r |-> Zero]

\* One pass of mand2's loop body for one point p of the batch (the batch
\* operations are elementwise).  The masked blends multiply both the new and
\* the old value by a 0/1 mask and add them.
MandIter(st, p, pw) ==
    LET z == st.z
        r == LAnorm(z)
        zx == z[1]
        zy == z[2]
        zz == z[3]
        theta == FArccos(FDiv(zz, r))
        phi == FArctan(FDiv(zy, zx))
        drnew == FAdd(FMul(FMul(FPow(r, pw - 1), Fin(pw * Q)), st.dr), One)
        lt == Mask(FLt(r, Fin(bailout)))
        ge == Mask(FGe(r, Fin(bailout)))
        dr == FAdd(FMul(drnew, lt), FMul(st.dr, ge))
        zr == FPow(r, pw)
        theta2 == FMul(theta, Fin(pw * Q))
        phi2 == FMul(phi, Fin(pw * Q))
        znew == VScale(<<FMul(FSin(theta2), FCos(phi2)),
                         FMul(FSin(phi2), FSin(theta2)),
                         FCos(theta2)>>, zr)
    IN  [z |-> VAdd(VScale(VAdd(znew, p), lt), VScale(z, ge)),
         dr |-> dr,
         r |-> r]

RECURSIVE MandLoop(_, _, _, _)
MandLoop(st, p, n, pw) ==
    IF n <= 0 THEN st ELSE MandLoop(MandIter(st, p, pw), p, n - 1, pw)

\* The value mand2 returns for a point from its final locals:
\* abs(0.5 * log(r) * (r / dr)).
MandReturn(st) ==
    FAbs(FMul(FMul(Fin(Q \div 2), FLog(st.r)), FDiv(st.r, st.dr)))

\* mand2(pos, iterations, power) for a batch: one distance per point.
mand2(batch, iterations, pw) ==
    [i \in 1..Len(batch) |->
        MandReturn(MandLoop(MandStart(batch[i]), batch[i], iterations, pw))]

\* ------------------------------------------------------------ state
VARIABLES
    res, nmarch, order, power, proximity, ele, azi,  \* self.<parameter>
    campos,      \* self.campos
    pos,         \* self.pos, a batch; meaningful when hasPos
    hasPos,      \* whether the attribute self.pos exists
    dis,         \* self.dis
    im,          \* render's depth map, a sequence of rows
    dirs,        \* visualize's local dirs
    camposRot,   \* visualize's local campos (the rotated camera position)
    ii,          \* visualize's loop index: iterations completed
    evals,       \* number of mand2 evaluations made by the running visualize
    pc,          \* "idle" between calls, "march" inside visualize's loop
    status,      \* outcome of the latest call or assignment
    nsets,       \* assignments made so far
    mpos, miterations, mpower,   \* a stand-alone mand2 call: its arguments
    mst,         \* its locals z, dr, r, one record per point
    jj,          \* its loop index
    mresult,     \* its return value
    mpc          \* "off", "loop" or "returned"

objVars == <<res, nmarch, order, power, proximity, ele, azi, campos, pos, hasPos,
             dis, im, dirs, camposRot, ii, evals, pc, status, nsets>>
mandVars == <<mpos, miterations, mpower, mst, jj, mresult, mpc>>
vars == <<objVars, mandVars>>

\* ------------------------------------------------------------ inputs
\* Each parameter is drawn from its smallest values and its largest one: a
\* negative, an empty and the largest resolution; no and the most marching
\* steps; no and the most fractal iterations; power 1 and the largest power.
ResValues == {-1, 0, MaxRes}
MarchValues == {0, MaxMarch}
OrderValues == {0, MaxOrder}
PowerValues == {1, MaxPower}
\* 0.0, the default 3.0, 5.0 (outside the abort radius) and 25.0 (whose
\* square overflows the model's floats).
ProxValues == {0, 3 * Q, 5 * Q, 25 * Q}
EleValues == {0, Pi}
AziValues == {0, HalfPi}

\* ------------------------------------------------------------ visualize
abortRadius == 4 * Q
damping == (4 * Q) \div 10

\* np.linspace(-0.5, 0.5, n)[k], k = 0..n-1 (n = 1 gives the start alone).
linspace(n, k) == IF n = 1 THEN -(Q \div 2) ELSE -(Q \div 2) + TruncDiv(k * Q, n - 1)

\* Row i (1-based) of the flattened "ij" meshgrid: xx = vx[a], yy = vy[b]
\* with i - 1 = a * n + b, and zz = 1.
GridDir(n, i) == Vec(linspace(n, (i - 1) \div n), linspace(n, (i - 1) % n), Q)

\* dirs / norm(dirs), row by row.
Normalize(u) ==
    LET n == LAnorm(u) IN <<FDiv(u[1], n), FDiv(u[2], n), FDiv(u[3], n)>>

\* RotateDir with the azimuth applied before the elevation.
RotateDirSwapped(u, e, a) ==
    matmul(matmul(matmul(u, rotx(Fin(HalfPi))), rotz(Fin(a))), rotx(Fin(e)))

\* The rotation of the ray directions: rotx(pi/2), rotx(ele), rotz(azi).
RotateDir(u, e, a) ==
    matmul(matmul(matmul(u, rotx(Fin(HalfPi))), rotx(Fin(e))), rotz(Fin(a)))

\* The rotation of the camera position: rotx(ele), rotz(azi).
RotateCam(c, e, a) == matmul(matmul(c, rotx(Fin(e))), rotz(Fin(a)))

SetupDirs(n, e, a) == [i \in 1..(n * n) |-> RotateDir(Normalize(GridDir(n, i)), e, a)]

SetupPos(n, c) == [i \in 1..(n * n) |-> <<c[1], c[2], c[3]>>]

\* MarchGuard stopping one iteration early.
MarchGuardOffByOne(k, n) == k + 1 < n

\* The loop's continuation test: range(self.nmarch).
MarchGuard(k, n) == k < n

\* One pass of the marching loop over the whole batch.
MarchStep(batch, d, ord, pw) ==
    LET de == mand2(batch, ord, pw)
    IN  [i \in 1..Len(batch) |->
            LET step0 == FMul(de[i], Fin(damping))
                step == FMul(step0, Mask(FLt(LAnorm(batch[i]), Fin(abortRadius))))
            IN  VAdd(batch[i], VScale(d[i], FAbs(step)))]

\* self.campos as __init__ sets it from its proximity argument.
InitCampos(prox) == Vec(0, prox, 0)

Init ==
    /\ res \in ResValues
    /\ nmarch \in MarchValues
    /\ order \in OrderValues
    /\ power \in PowerValues
    /\ proximity \in ProxValues
    /\ ele \in EleValues
    /\ azi \in AziValues
    /\ campos = InitCampos(proximity)
    /\ pos = <<>> /\ hasPos = FALSE
    /\ dis = <<>> /\ im = <<>>
    /\ dirs = <<>> /\ camposRot = InitCampos(0)
    /\ ii = 0 /\ evals = 0
    /\ pc = "idle" /\ status = "constructed"
    /\ nsets = 0
    /\ mpos = <<>> /\ miterations = 0 /\ mpower = 1
    /\ mst = <<>> /\ jj = 0 /\ mresult = <<>> /\ mpc = "off"

\* obj.<name> = value, between calls.
SetAttr ==
    /\ pc = "idle" /\ nsets < MaxSets
    /\ nsets' = nsets + 1
    /\ status' = "configured"
    /\ \/ \E x \in ResValues : res' = x /\ UNCHANGED <<nmarch, order, power, proximity, ele, azi>>
       \/ \E x \in MarchValues : nmarch' = x /\ UNCHANGED <<res, order, power, proximity, ele, azi>>
       \/ \E x \in OrderValues : order' = x /\ UNCHANGED <<res, nmarch, power, proximity, ele, azi>>
       \/ \E x \in PowerValues : power' = x /\ UNCHANGED <<res, nmarch, order, proximity, ele, azi>>
       \/ \E x \in ProxValues : proximity' = x /\ UNCHANGED <<res, nmarch, order, power, ele, azi>>
       \/ \E x \in EleValues : ele' = x /\ UNCHANGED <<res, nmarch, order, power, proximity, azi>>
       \/ \E x \in AziValues : azi' = x /\ UNCHANGED <<res, nmarch, order, power, proximity, ele>>
    /\ UNCHANGED <<campos, pos, hasPos, dis, im, dirs, camposRot, ii, evals, pc>>
    /\ UNCHANGED mandVars

\* visualize up to the loop: a negative res makes np.linspace raise
\* ValueError before anything is assigned.
VisualizeRaise ==
    /\ pc = "idle"
    /\ res < 0
    /\ status' = "visualize_raised"
    /\ UNCHANGED <<res, nmarch, order, power, proximity, ele, azi, campos, pos, hasPos,
                   dis, im, dirs, camposRot, ii, evals, pc, nsets>>
    /\ UNCHANGED mandVars

VisualizeSetup ==
    /\ pc = "idle"
    /\ res >= 0
    /\ dirs' = SetupDirs(res, ele, azi)
    /\ camposRot' = RotateCam(campos, ele, azi)
    /\ pos' = SetupPos(res, camposRot')
    /\ hasPos' = TRUE
    /\ ii' = 0 /\ evals' = 0
    /\ pc' = "march"
    /\ status' = "running"
    /\ UNCHANGED <<res, nmarch, order, power, proximity, ele, azi, campos, dis, im, nsets>>
    /\ UNCHANGED mandVars

MarchIter ==
    /\ pc = "march"
    /\ MarchGuard(ii, nmarch)
    /\ pos' = MarchStep(pos, dirs, order, power)
    /\ evals' = evals + 1
    /\ ii' = ii + 1
    /\ UNCHANGED <<res, nmarch, order, power, proximity, ele, azi, campos, hasPos,
                   dis, im, dirs, camposRot, pc, status, nsets>>
    /\ UNCHANGED mandVars

VisualizeReturn ==
    /\ pc = "march"
    /\ ~MarchGuard(ii, nmarch)
    /\ pc' = "idle"
    /\ status' = "visualized"
    /\ UNCHANGED <<res, nmarch, order, power, proximity, ele, azi, campos, pos, hasPos,
                   dis, im, dirs, camposRot, ii, evals, nsets>>
    /\ UNCHANGED mandVars

\* ------------------------------------------------------------ render
\* np.sqrt(np.matmul(np.square(p - c), [1, 1, 1])) for one row.
Distance(p, c) ==
    LET d == VSub(p, c)
    IN  FSqrt(FAdd(FAdd(FMul(d[1], d[1]), FMul(d[2], d[2])), FMul(d[3], d[3])))

\* np.reshape(flat, [n, n]) succeeds exactly when n >= 0 and n * n is the
\* number of elements; the rows are filled in index order.
ReshapeOk(flat, n) == n >= 0 /\ n * n = Len(flat)

\* Reshape filling the grid column by column (order="F").
ReshapeColumnMajor(flat, n) == [a \in 1..n |-> [b \in 1..n |-> flat[(b - 1) * n + a]]]

Reshape(flat, n) == [a \in 1..n |-> [b \in 1..n |-> flat[(a - 1) * n + b]]]

\* render without a previous visualize: self.pos does not exist.
RenderNoPos ==
    /\ pc = "idle"
    /\ ~hasPos
    /\ status' = "render_raised"
    /\ UNCHANGED <<res, nmarch, order, power, proximity, ele, azi, campos, pos, hasPos,
                   dis, im, dirs, camposRot, ii, evals, pc, nsets>>
    /\ UNCHANGED mandVars

Render ==
    /\ pc = "idle"
    /\ hasPos
    /\ dis' = [i \in 1..Len(pos) |-> Distance(pos[i], campos)]
    /\ IF ReshapeOk(dis', res)
       THEN im' = Reshape(dis', res) /\ status' = "rendered"
       ELSE im' = im /\ status' = "render_raised"
    /\ UNCHANGED <<res, nmarch, order, power, proximity, ele, azi, campos, pos, hasPos,
                   dirs, camposRot, ii, evals, pc, nsets>>
    /\ UNCHANGED mandVars

Next ==
    \/ SetAttr
    \/ VisualizeRaise
    \/ VisualizeSetup
    \/ MarchIter
    \/ VisualizeReturn
    \/ RenderNoPos
    \/ Render

Spec == Init /\ [][Next]_vars

\* A call of visualize that has reached its loop keeps executing: the loop
\* body and the return that follows the loop are straight-line code of one
\* thread, so a behaviour never stays inside the loop without taking the
\* loop's next step.  This is weak fairness of MarchIter \/ VisualizeReturn,
\* with "enabled" written as the condition pc = "march" under which one of the
\* two always is.
Running == []<>(pc # "march") \/ []<><<MarchIter \/ VisualizeReturn>>_vars

SpecFair == Spec /\ Running

\* ------------------------------------------------------------ mand2 alone
\* mand2 called on its own with a batch of sample points: on the z axis
\* outside the bailout radius, the default camera position, generic points
\* inside and outside the bailout radius, the origin, and a point whose
\* squared radius overflows.
MandPoints ==
    { Vec(0, 0, 2 * Q), Vec(0, 3 * Q, 0), Vec(Q \div 2, (3 * Q) \div 10, Q \div 5),
      Vec(-Q, Q, Q), Vec(0, 0, 0), Vec(0, 25 * Q, 0) }

MandBatches == UNION { [1..n -> MandPoints] : n \in 1..MaxBatch }

MandInit ==
    /\ res = 0 /\ nmarch = 0 /\ order = 0 /\ power = 1 /\ proximity = 0
    /\ ele = 0 /\ azi = 0
    /\ campos = InitCampos(0)
    /\ pos = <<>> /\ hasPos = FALSE
    /\ dis = <<>> /\ im = <<>>
    /\ dirs = <<>> /\ camposRot = InitCampos(0)
    /\ ii = 0 /\ evals = 0
    /\ pc = "idle" /\ status = "constructed"
    /\ nsets = 0
    /\ mpos \in MandBatches
    /\ miterations \in 0..MaxIter
    /\ mpower \in PowerValues
    /\ mst = [i \in 1..Len(mpos) |-> MandStart(mpos[i])]
    /\ jj = 0
    /\ mresult = <<>>
    /\ mpc = "loop"

\* One pass of "for jj in range(iterations)" over the batch.  z, dr and r
\* are rebound to new arrays; the argument pos is never written.
MandPass ==
    /\ mpc = "loop"
    /\ jj < miterations
    /\ mst' = [i \in 1..Len(mpos) |-> MandIter(mst[i], mpos[i], mpower)]
    /\ jj' = jj + 1
    /\ UNCHANGED <<mpos, miterations, mpower, mresult, mpc>>
    /\ UNCHANGED objVars

MandExit ==
    /\ mpc = "loop"
    /\ jj >= miterations
    /\ mresult' = [i \in 1..Len(mpos) |-> MandReturn(mst[i])]
    /\ mpc' = "returned"
    /\ UNCHANGED <<mpos, miterations, mpower, mst, jj>>
    /\ UNCHANGED objVars

MandNext == MandPass \/ MandExit

SpecMand == MandInit /\ [][MandNext]_vars

\* ------------------------------------------------------------ claims
\* A marching iteration is the only step from "march" to "march".
IsMarchStep == pc = "march" /\ pc' = "march"

Rays == 1..Len(pos)

\* |position| >= 4.0 and |position| < 4.0, as the code compares them.
Frozen(p) == FGe(LAnorm(p), Fin(abortRadius))
Active(p) == FLt(LAnorm(p), Fin(abortRadius))

\* C1: a ray whose distance from the origin is >= 4.0 at the start of a
\* marching iteration has exactly the same position after it (and so, by
\* induction, in every later iteration and at the end of the run).
C1_Freezing ==
    [][IsMarchStep => \A i \in Rays : Frozen(pos[i]) => pos'[i] = pos[i]]_vars

\* The step the claim C2 prescribes for ray i: |0.4 * distanceEstimator|.
ClaimedStep(i) == FAbs(FMul(Fin(damping), mand2(pos, order, power)[i]))

\* Ray i's position p lies on the half-line from origin o along direction d
\* as far as signs can tell: every component of p - o is a finite number
\* that is zero or has the sign of d's component.
OnHalfLine(p, o, d) ==
    /\ VFinite(p)
    /\ \A c \in 1..3 :
          LET dc == FSub(p[c], o[c])
          IN  IsFin(dc) /\ dc.v * FSign(d[c]) >= 0 /\ (FSign(d[c]) = 0 => dc.v = 0)

\* C2: in every marching iteration every active ray moves by
\* direction * |0.4 * distanceEstimator(old position)|, the directions stay
\* fixed, every ray's position stays on the half-line from the camera
\* origin along its direction, and its distance travelled never decreases.
C2_ActiveTransition ==
    [][IsMarchStep =>
        /\ dirs' = dirs
        /\ \A i \in Rays :
              /\ Active(pos[i]) => pos'[i] = VAdd(pos[i], VScale(dirs[i], ClaimedStep(i)))
              /\ OnHalfLine(pos'[i], camposRot, dirs[i])
              /\ FGe(Distance(pos'[i], camposRot), Distance(pos[i], camposRot))]_vars

\* The transition part of C2 alone (it holds; see C2_ActiveTransition).
C2_TransitionOnly ==
    [][IsMarchStep =>
        /\ dirs' = dirs
        /\ \A i \in Rays :
              Active(pos[i]) => pos'[i] = VAdd(pos[i], VScale(dirs[i], ClaimedStep(i)))]_vars

\* The half-line part of C2 for the iterations whose distance estimates are
\* all finite numbers (it holds; see C2_ActiveTransition).
C2_HalfLineWhenFinite ==
    [][(IsMarchStep /\ \A i \in Rays : VFinite(pos[i]) /\ IsFin(mand2(pos, order, power)[i])) =>
        \A i \in Rays :
              /\ OnHalfLine(pos'[i], camposRot, dirs[i])
              /\ FGe(Distance(pos'[i], camposRot), Distance(pos[i], camposRot))]_vars

\* Inside the loop at most nmarch iterations are done, the distance estimator
\* has been evaluated once per iteration, and the loop continues exactly while
\* fewer than nmarch iterations are done; after the return exactly nmarch
\* iterations and evaluations have happened.
LoopCount ==
    /\ pc = "march" =>
          /\ ii <= nmarch /\ evals = ii
          /\ MarchGuard(ii, nmarch) <=> ii < nmarch
    /\ status = "visualized" => ii = nmarch /\ evals = nmarch

\* Every marching iteration reads the positions the previous one produced
\* and evaluates the distance estimator once, on the whole batch.
Sequential ==
    IsMarchStep =>
        /\ ii' = ii + 1 /\ evals' = evals + 1
        /\ pos' = MarchStep(pos, dirs, order, power)

\* C3: once the marching loop is entered it always terminates, after exactly
\* nmarch marching iterations performed one after the other with one
\* evaluation of the distance estimator per iteration: it never stops early
\* (not even when every ray is frozen) and never runs longer.
C3_ExactlyNmarch ==
    /\ []LoopCount
    /\ [][Sequential]_vars
    /\ (pc = "march" ~> status = "visualized")

C3_Witness ==
    /\ status = "visualized" /\ nmarch = 2 /\ ii = 2 /\ evals = 2
    /\ Len(pos) > 0
    /\ \A i \in Rays : Frozen(pos[i])

\* C4: after visualize and render, distances[i] is the Euclidean distance
\* between ray i's final position and the rotated camera position the ray
\* origins were set to.
C4_DepthFromCamera ==
    status = "rendered" =>
        /\ Len(dis) = Len(pos)
        /\ \A i \in Rays : dis[i] = Distance(pos[i], camposRot)

\* C5: a depth map that render builds is a res x res grid holding one value
\* per ray of the latest visualize, in ray-generation order (row a, column b
\* holds the depth of ray (a-1)*res + b, which was generated from the image
\* plane point (vx[a], vy[b])); render raises instead only when there are no
\* positions or res does not fit the number of rays.
C5_DepthMapShape ==
    /\ status = "rendered" =>
          /\ res >= 0
          /\ Len(pos) = res * res /\ Len(dis) = res * res
          /\ Len(im) = res
          /\ \A a \in 1..res :
                /\ Len(im[a]) = res
                /\ \A b \in 1..res :
                      /\ im[a][b] = Distance(pos[(a - 1) * res + b], campos)
                      /\ nsets = 0 =>
                            dirs[(a - 1) * res + b] =
                                RotateDir(Normalize(Vec(linspace(res, a - 1),
                                                        linspace(res, b - 1), Q)),
                                          ele, azi)
    /\ status = "render_raised" => (~hasPos \/ res < 0 \/ Len(pos) # res * res)

C5_Witness ==
    /\ status = "rendered" /\ res = 2 /\ nsets > 0
    /\ Len(im) = 2 /\ Len(im[1]) = 2 /\ Len(im[2]) = 2
    /\ im[1][2] # im[2][1]

\* C6: when the distance estimator returns NaN or Inf for a ray, the
\* marching iteration leaves that ray's position unchanged.
C6_IndeterminateFreezes ==
    [][IsMarchStep =>
        \A i \in Rays : ~IsFin(mand2(pos, order, power)[i]) => pos'[i] = pos[i]]_vars

\* C7: with res <= 0 or order = 0 no marching iteration is performed and
\* neither visualize nor render completes normally.
Malformed == res <= 0 \/ order = 0

C7_FailFast ==
    Malformed =>
        /\ ~(pc = "march" /\ ii > 0)
        /\ status \notin {"visualized", "rendered"}

\* The composed rotations.
DirRotation == MatMat(MatMat(rotx(Fin(HalfPi)), rotx(Fin(ele))), rotz(Fin(azi)))
CamRotation == MatMat(rotx(Fin(ele)), rotz(Fin(azi)))

\* C8 as stated: when marching starts, every direction is its normalized
\* grid vector transformed by Rx(pi/2) Rx(ele) Rz(azi), and the camera
\* position, where every ray starts, is (0, proximity, 0) transformed by the
\* same composed rotation.
C8_SameRotation ==
    (pc = "march" /\ ii = 0) =>
        /\ \A i \in 1..Len(dirs) : dirs[i] = matmul(Normalize(GridDir(res, i)), DirRotation)
        /\ \A i \in Rays : pos[i] = matmul(InitCampos(proximity), DirRotation)

\* C8 as amended: the normalized directions are transformed by
\* Rx(pi/2) Rx(ele) Rz(azi), in that order; the stored camera position
\* self.campos is transformed by Rx(ele) Rz(azi) only, without the 90 degree
\* correction, and every ray starts at that rotated camera position.
C8_Rotations ==
    pc = "march" =>
        /\ Len(dirs) = res * res /\ Len(pos) = res * res
        /\ \A i \in 1..Len(dirs) : dirs[i] = matmul(Normalize(GridDir(res, i)), DirRotation)
        /\ camposRot = matmul(campos, CamRotation)
        /\ ii = 0 => \A i \in Rays : pos[i] = matmul(campos, CamRotation)

C8_Witness ==
    /\ pc = "march" /\ ii = 0 /\ res = 2 /\ ele = Pi /\ azi = HalfPi
    /\ proximity = 3 * Q /\ campos = InitCampos(proximity)
    /\ Len(dirs) = 4
    /\ pos[1] # campos
    /\ pos[1] # matmul(campos, DirRotation)

\* What visualize computes on a freshly constructed object with the given
\* constructor arguments.
RECURSIVE MarchAll(_, _, _, _, _)
MarchAll(batch, d, k, ord, pw) ==
    IF k <= 0 THEN batch ELSE MarchAll(MarchStep(batch, d, ord, pw), d, k - 1, ord, pw)

FreshOrigin(prox, e, a) == RotateCam(InitCampos(prox), e, a)
FreshFinal(n, m, ord, pw, prox, e, a) ==
    MarchAll(SetupPos(n, FreshOrigin(prox, e, a)), SetupDirs(n, e, a), m, ord, pw)

Config == <<res, nmarch, order, power, proximity, ele, azi>>

\* C9: a visualize call, also one made after attribute assignments, sets up
\* the same origins and directions and returns with the same final
\* positions as visualize on a fresh object constructed with the current
\* parameter values, and it leaves the parameters unchanged.
C9_AssignmentTakesEffect ==
    [][/\ (pc = "idle" /\ pc' = "march") =>
              /\ Config' = Config
              /\ dirs' = SetupDirs(res, ele, azi)
              /\ pos' = SetupPos(res, FreshOrigin(proximity, ele, azi))
       /\ pc = "march" => Config' = Config /\ dirs' = dirs
       /\ (pc = "march" /\ pc' = "idle") =>
              pos' = FreshFinal(res, nmarch, order, power, proximity, ele, azi)]_vars

\* The same with the stored camera position self.campos in place of
\* (0, proximity, 0) (it holds; see C9_AssignmentTakesEffect).
C9_WithStoredCampos ==
    [][/\ (pc = "idle" /\ pc' = "march") =>
              /\ Config' = Config
              /\ dirs' = SetupDirs(res, ele, azi)
              /\ pos' = SetupPos(res, RotateCam(campos, ele, azi))
       /\ pc = "march" => Config' = Config /\ dirs' = dirs
       /\ (pc = "march" /\ pc' = "idle") =>
              pos' = MarchAll(SetupPos(res, RotateCam(campos, ele, azi)),
                              SetupDirs(res, ele, azi), nmarch, order, power)]_vars

\* C10: one pass of mand2's loop leaves z and dr of every point with
\* r = |z| >= bailout unchanged, and never writes the batch passed in.
C10_EscapeFreeze ==
    [][(mpc = "loop" /\ jj' = jj + 1) =>
        /\ mpos' = mpos
        /\ \A i \in 1..Len(mpos) :
              FGe(LAnorm(mst[i].z), Fin(bailout)) =>
                  mst'[i].z = mst[i].z /\ mst'[i].dr = mst[i].dr]_vars

\* The same for the points whose new z and dr are finite numbers (it holds;
\* see C10_EscapeFreeze).
C10_WhenFinite ==
    [][(mpc = "loop" /\ jj' = jj + 1) =>
        /\ mpos' = mpos
        /\ \A i \in 1..Len(mpos) :
              (FGe(LAnorm(mst[i].z), Fin(bailout)) /\ VFinite(mst'[i].z) /\ IsFin(mst'[i].dr)) =>
                  mst'[i].z = mst[i].z /\ mst'[i].dr = mst[i].dr]_vars

====
